---- MODULE Spec2Model ----
(***************************************************************************)
(* Model of pushover_watchdog/cli.py: the driver loop of main() and the    *)
(* per-target alert decision maybe_alert().                                *)
(*                                                                         *)
(* Floats are modelled as exact rationals <<numerator, denominator>> with  *)
(* a positive denominator; times are integers (seconds).  An uncaught      *)
(* Python exception leaving main() is the control state "crashed", a       *)
(* SystemExit raised by the argument checks is the control state "exit".   *)
(***************************************************************************)
EXTENDS Integers, Sequences, FiniteSets, TLC

\* ---------------------------------------------------------------- bounds
\* largest wall-clock value explored
MaxTime == 7
\* largest wall-clock value at process start
MaxStart == 2
\* total size (bytes) reported by a non-degenerate metric reading
MaxTotal == 4
\* largest extra delay of one sleep beyond args.interval
MaxLag == 1
\* number of base-1024 digits of the byte counts given to fmt_bytes
FmtMaxDigits == 7

\* ---------------------------------------------------------------- inputs
\* --threshold values tried (0 and 3/2 are invalid)
Thresholds == {<<0, 1>>, <<1, 2>>, <<3, 4>>, <<1, 1>>, <<3, 2>>}
\* --interval values tried
Intervals == {1, 2}
\* --cooldown values tried
Cooldowns == {0, 2, 3}
\* resolved, stripped credential strings tried
Credentials == {"", "k"}
\* outcomes of requests.post in send_pushover_alert
Responses == {"200", "non200", "exception"}
\* outcomes of one psutil query: an error or a reading (used, total)
Readings ==
  {<<u, t>> : u \in 0..MaxTotal, t \in {0, MaxTotal}} \ {<<u, 0>> : u \in 1..MaxTotal}

Targets == {"RAM", "Disk"}
\* base-1024 digits the byte counts given to fmt_bytes are built from
FmtDigits == {0, 1, 128, 512, 1023}
\* byte counts given to fmt_bytes: digit sequences, least significant digit first
FmtInputs == [1..FmtMaxDigits -> FmtDigits]

VARIABLES
  args,        \* parsed command line and resolved credentials
  pc,          \* control position of main(): start, ram, disk, sleep, exit, crashed
  clock,       \* wall clock, what time.time() returns
  ram_state,   \* TargetState of RAM
  disk_state,  \* TargetState of the disk path
  ev,          \* record of what the last step of main() did
  hist,        \* per target: history of evaluated samples and alerts
  tick,        \* per target: calls made in the current loop iteration
  fmt_n,       \* argument of a fmt_bytes call, as base-1024 digits
  fmt_out      \* what that fmt_bytes call returned

vars == <<args, pc, clock, ram_state, disk_state, ev, hist, tick, fmt_n, fmt_out>>
\* the variables of the fmt_bytes call, which main()'s control flow never reads
fmtvars == <<fmt_n, fmt_out>>

\* ------------------------------------------------------------ arithmetic
\* a >= b for rationals with positive denominators
FracGE(a, b) == a[1] * b[2] >= b[1] * a[2]
\* a > b for rationals with positive denominators
FracGT(a, b) == a[1] * b[2] > b[1] * a[2]

\* ------------------------------------------------------ cli.py functions
\* dataclass TargetState
TargetState(name) == [name |-> name, last_above |-> FALSE, last_alert_ts |-> 0]

usage_frac_mut_nozerocheck(used, total) == <<used, total>>
\* frac = used / total if total else 0.0
usage_frac(used, total) == IF total # 0 THEN <<used, total>> ELSE <<0, 1>>

\* get_ram_usage: (frac, used, total) of a reading
get_ram_usage(reading) ==
  [frac |-> usage_frac(reading[1], reading[2]), used |-> reading[1], total |-> reading[2]]

\* get_disk_usage: (frac, used, total) of a reading
get_disk_usage(reading) ==
  [frac |-> usage_frac(reading[1], reading[2]), used |-> reading[1], total |-> reading[2]]

\* send_pushover_alert raises unless the POST returns with status 200
send_pushover_alert_raises(resp) == resp # "200"

above_mut_strict(frac) == FracGT(frac, args.threshold)
\* above = frac >= args.threshold
above(frac) == FracGE(frac, args.threshold)

crossed_up_mut_noedge(state, frac) == above(frac)
\* crossed_up = (not state.last_above) and above
crossed_up(state, frac) == (~state.last_above) /\ above(frac)

cooldown_ok_mut_strict(state, now) == (now - state.last_alert_ts) > args.cooldown
\* cooldown_ok = (now - state.last_alert_ts) >= args.cooldown
cooldown_ok(state, now) == (now - state.last_alert_ts) >= args.cooldown

should_alert_mut_norepeat(state, frac, now) == crossed_up(state, frac)
should_alert_mut_norepeatguard(state, frac, now) ==
  crossed_up(state, frac) \/ (above(frac) /\ cooldown_ok(state, now))
\* the condition of the if statement of maybe_alert
should_alert(state, frac, now) ==
  crossed_up(state, frac) \/ (above(frac) /\ args.cooldown > 0 /\ cooldown_ok(state, now))

maybe_alert_mut_stampalways(state, frac, now, resp) ==
  IF should_alert(state, frac, now)
  THEN IF send_pushover_alert_raises(resp)
       THEN [state |-> state, requested |-> TRUE, raised |-> TRUE]
       ELSE [state |-> [state EXCEPT !.last_alert_ts = now, !.last_above = above(frac)],
             requested |-> TRUE, raised |-> FALSE]
  ELSE [state |-> [state EXCEPT !.last_alert_ts = now, !.last_above = above(frac)],
        requested |-> FALSE, raised |-> FALSE]
maybe_alert_mut_stickyabove(state, frac, now, resp) ==
  IF should_alert(state, frac, now)
  THEN IF send_pushover_alert_raises(resp)
       THEN [state |-> state, requested |-> TRUE, raised |-> TRUE]
       ELSE [state |-> [state EXCEPT !.last_alert_ts = now, !.last_above = above(frac)],
             requested |-> TRUE, raised |-> FALSE]
  ELSE [state |-> state, requested |-> FALSE, raised |-> FALSE]
\* maybe_alert(state, frac, used, total), called at time now, with resp the
\* outcome of the POST when one is made: the state it leaves, whether
\* send_pushover_alert was called, whether the exception left maybe_alert
maybe_alert(state, frac, now, resp) ==
  IF should_alert(state, frac, now)
  THEN IF send_pushover_alert_raises(resp)
       THEN [state |-> state, requested |-> TRUE, raised |-> TRUE]
       ELSE [state |-> [state EXCEPT !.last_alert_ts = now, !.last_above = above(frac)],
             requested |-> TRUE, raised |-> FALSE]
  ELSE [state |-> [state EXCEPT !.last_above = above(frac)],
        requested |-> FALSE, raised |-> FALSE]

config_rejected_mut_zerook ==
  \/ ~(FracGE(args.threshold, <<0, 1>>) /\ FracGE(<<1, 1>>, args.threshold))
  \/ (args.no_ram /\ args.no_disk)
  \/ (args.user_key = "" \/ args.app_token = "")
\* the three argument checks of main() that raise SystemExit
config_rejected ==
  \/ ~(FracGT(args.threshold, <<0, 1>>) /\ FracGE(<<1, 1>>, args.threshold))
  \/ (args.no_ram /\ args.no_disk)
  \/ (args.user_key = "" \/ args.app_token = "")

\* ------------------------------------------------------- step bookkeeping
NoEv ==
  [kind |-> "none", target |-> "none", used |-> 0, total |-> 0, frac |-> <<0, 1>>,
   now |-> 0, pre |-> TargetState("none"), requested |-> FALSE, delivered |-> FALSE]

NoHist == [alerted |-> FALSE, alert_time |-> 0, below_since |-> FALSE, last_sample |-> "none"]

\* history of a target after the evaluation of a sample
HistAfter(h, isAbove, requested, now) ==
  [alerted     |-> h.alerted \/ requested,
   alert_time  |-> IF requested THEN now ELSE h.alert_time,
   below_since |-> IF requested THEN FALSE ELSE (h.below_since \/ ~isAbove),
   last_sample |-> IF isAbove THEN "above" ELSE "below"]

\* fmt_bytes has not returned
NoFmt == [unit |-> "none", decimals |-> 0, whole |-> 0, cents |-> 0]

\* no call made yet in this loop iteration
NoTick == [t \in Targets |-> [sampled |-> 0, evaluated |-> 0, notified |-> 0]]

\* ------------------------------------------------------------------ Init
Init ==
  /\ args \in [threshold : Thresholds, interval : Intervals, cooldown : Cooldowns,
               no_ram : BOOLEAN, no_disk : BOOLEAN,
               user_key : Credentials, app_token : Credentials]
  /\ pc = "start"
  /\ clock \in 1..MaxStart
  /\ ram_state = TargetState("RAM")
  /\ disk_state = TargetState("Disk")
  /\ ev = NoEv
  /\ hist = [t \in Targets |-> NoHist]
  /\ tick = NoTick
  /\ fmt_n = <<>>
  /\ fmt_out = NoFmt

\* --------------------------------------------------------------- actions
\* main(): argument checks, creation of the two states, entry of the loop
Startup ==
  /\ pc = "start"
  /\ pc' = IF config_rejected THEN "exit" ELSE "ram"
  /\ ev' = [NoEv EXCEPT !.kind = IF config_rejected THEN "rejected" ELSE "started"]
  /\ UNCHANGED <<args, clock, ram_state, disk_state, hist, tick, fmtvars>>

CheckTarget_mut_shared(t, st, nextpc) ==
  \/ /\ pc' = "crashed"
     /\ ev' = [NoEv EXCEPT !.kind = "sample_error", !.target = t, !.now = clock, !.pre = st]
     /\ tick' = [tick EXCEPT ![t].sampled = @ + 1]
     /\ UNCHANGED <<ram_state, disk_state, hist>>
  \/ \E reading \in Readings, resp \in Responses :
       LET s == IF t = "RAM" THEN get_ram_usage(reading) ELSE get_disk_usage(reading)
           r == maybe_alert(st, s.frac, clock, resp)
       IN  /\ pc' = IF r.raised THEN "crashed" ELSE nextpc
           /\ ram_state' = [r.state EXCEPT !.name = ram_state.name]
           /\ disk_state' = [r.state EXCEPT !.name = disk_state.name]
           /\ ev' = [kind |-> "eval", target |-> t, used |-> s.used, total |-> s.total,
                     frac |-> s.frac, now |-> clock, pre |-> st,
                     requested |-> r.requested,
                     delivered |-> r.requested /\ ~r.raised]
           /\ hist' = [hist EXCEPT ![t] = HistAfter(@, FracGE(s.frac, args.threshold),
                                                    r.requested, clock)]
           /\ tick' = [tick EXCEPT ![t] = [sampled |-> @.sampled + 1,
                                           evaluated |-> @.evaluated + 1,
                                           notified |-> @.notified +
                                                        (IF r.requested THEN 1 ELSE 0)]]
\* what one "if not args.no_X: sample; maybe_alert" statement does to a target
\* with state st, leading to control position nextpc
CheckTarget(t, st, nextpc) ==
  \/ \* psutil raises: the exception leaves main()
     /\ pc' = "crashed"
     /\ ev' = [NoEv EXCEPT !.kind = "sample_error", !.target = t, !.now = clock, !.pre = st]
     /\ tick' = [tick EXCEPT ![t].sampled = @ + 1]
     /\ UNCHANGED <<ram_state, disk_state, hist>>
  \/ \E reading \in Readings, resp \in Responses :
       LET s == IF t = "RAM" THEN get_ram_usage(reading) ELSE get_disk_usage(reading)
           r == maybe_alert(st, s.frac, clock, resp)
       IN  /\ pc' = IF r.raised THEN "crashed" ELSE nextpc
           /\ IF t = "RAM"
              THEN ram_state' = r.state /\ UNCHANGED disk_state
              ELSE disk_state' = r.state /\ UNCHANGED ram_state
           /\ ev' = [kind |-> "eval", target |-> t, used |-> s.used, total |-> s.total,
                     frac |-> s.frac, now |-> clock, pre |-> st,
                     requested |-> r.requested,
                     delivered |-> r.requested /\ ~r.raised]
           /\ hist' = [hist EXCEPT ![t] = HistAfter(@, FracGE(s.frac, args.threshold),
                                                    r.requested, clock)]
           /\ tick' = [tick EXCEPT ![t] = [sampled |-> @.sampled + 1,
                                           evaluated |-> @.evaluated + 1,
                                           notified |-> @.notified +
                                                        (IF r.requested THEN 1 ELSE 0)]]

\* loop body, first statement: RAM
RamCheck ==
  /\ pc = "ram"
  /\ IF args.no_ram
     THEN /\ pc' = "disk"
          /\ ev' = [NoEv EXCEPT !.kind = "skip", !.target = "RAM"]
          /\ UNCHANGED <<ram_state, disk_state, hist, tick>>
     ELSE CheckTarget("RAM", ram_state, "disk")
  /\ UNCHANGED <<args, clock, fmtvars>>

\* loop body, second statement: disk
DiskCheck ==
  /\ pc = "disk"
  /\ IF args.no_disk
     THEN /\ pc' = "sleep"
          /\ ev' = [NoEv EXCEPT !.kind = "skip", !.target = "Disk"]
          /\ UNCHANGED <<ram_state, disk_state, hist, tick>>
     ELSE CheckTarget("Disk", disk_state, "sleep")
  /\ UNCHANGED <<args, clock, fmtvars>>

\* loop body, last statement: time.sleep(args.interval)
Sleep ==
  /\ pc = "sleep"
  /\ \E lag \in 0..MaxLag :
       /\ clock + args.interval + lag <= MaxTime
       /\ clock' = clock + args.interval + lag
  /\ pc' = "ram"
  /\ ev' = [NoEv EXCEPT !.kind = "sleep"]
  /\ tick' = NoTick
  /\ UNCHANGED <<args, ram_state, disk_state, hist, fmtvars>>

Next == Startup \/ RamCheck \/ DiskCheck \/ Sleep

Spec == Init /\ [][Next]_vars

\* ------------------------------------------------- normal operation, forever
\* A second specification for the liveness properties: psutil and the POST
\* never fail, and the loop runs forever.  To keep the wall clock in
\* 1..MaxTime while it advances without end, a sleep that would pass MaxTime
\* moves the origin of time: the clock and every stored time are reduced by
\* the same amount, a stored time that would pass the origin becoming 0.
\* Differences now - stored are unchanged or stay >= MaxTime, so with
\* MaxTime >= every cooldown tried each test of maybe_alert is unchanged.

\* a stored time after the origin has moved by d
Shift(ts, d) == IF ts > d THEN ts - d ELSE 0

\* the RAM statement of the loop body when nothing raises
RamCheckOK == RamCheck /\ pc' # "crashed"

\* the disk statement of the loop body when nothing raises
DiskCheckOK == DiskCheck /\ pc' # "crashed"

LiveSleep_mut_exit ==
  /\ pc = "sleep"
  /\ pc' = "exit"
  /\ ev' = [NoEv EXCEPT !.kind = "sleep"]
  /\ tick' = NoTick
  /\ UNCHANGED <<args, clock, ram_state, disk_state, hist, fmtvars>>
\* time.sleep(args.interval) and the jump back to the head of "while True"
LiveSleep ==
  /\ pc = "sleep"
  /\ \E lag \in 0..MaxLag :
       LET t1 == clock + args.interval + lag
           d  == IF t1 > MaxTime THEN t1 - MaxTime ELSE 0
       IN  /\ clock' = t1 - d
           /\ ram_state' = [ram_state EXCEPT !.last_alert_ts = Shift(@, d)]
           /\ disk_state' = [disk_state EXCEPT !.last_alert_ts = Shift(@, d)]
           /\ hist' = [t \in Targets |->
                         [hist[t] EXCEPT !.alert_time = Shift(@, d)]]
  /\ pc' = "ram"
  /\ ev' = [NoEv EXCEPT !.kind = "sleep"]
  /\ tick' = NoTick
  /\ UNCHANGED <<args, fmtvars>>

LiveNext == Startup \/ RamCheckOK \/ DiskCheckOK \/ LiveSleep

\* a running process executes its next statement, and the sleep returns
LiveSpec == Init /\ [][LiveNext]_vars /\ WF_vars(LiveNext)

\* -------------------------------------------------------------- fmt_bytes
\* Byte counts reach 1024^6 and beyond, so a count is a sequence of base-1024
\* digits, least significant first, and the float x of fmt_bytes is the exact
\* number with integer part ip (digits, least significant first) and
\* fraction fp (digits, most significant first).  float(n) rounds n to 53
\* significant bits; the divisions by 1024.0 are exact in binary floating point.

\* the divisor 1024.0 of fmt_bytes
Base == 1024

\* units = ["B", "KiB", "MiB", "GiB", "TiB", "PiB"]
units == <<"B", "KiB", "MiB", "GiB", "TiB", "PiB">>

\* the integer a digit sequence (least significant first) stands for
RECURSIVE DigitsValue(_)
DigitsValue(ds) == IF ds = <<>> THEN 0 ELSE Head(ds) + Base * DigitsValue(Tail(ds))

\* significant bits of a Python float
MantissaBits == 53

\* number of bits of a digit d >= 1
BitLen(d) == CHOOSE b \in 1..10 : 2^(b - 1) <= d /\ d < 2^b

\* the digit sequence ds with amount added to digit i, carries propagated
RECURSIVE AddAt(_, _, _)
AddAt(ds, i, amount) ==
  IF i > Len(ds) THEN (IF amount = 0 THEN ds ELSE Append(ds, amount))
  ELSE IF ds[i] + amount < Base THEN [ds EXCEPT ![i] = @ + amount]
  ELSE AddAt([ds EXCEPT ![i] = @ + amount - Base], i + 1, 1)

\* the integer nearest to n with at most 53 significant bits, ties to even
RoundToDouble(n) ==
  IF \A i \in 1..Len(n) : n[i] = 0 THEN n
  ELSE
    LET t    == CHOOSE i \in 1..Len(n) : n[i] # 0 /\ \A j \in (i + 1)..Len(n) : n[j] = 0
        bits == BitLen(n[t]) + 10 * (t - 1)
    IN  IF bits <= MantissaBits THEN n
        ELSE
          LET drop   == bits - MantissaBits
              qd     == drop \div 10
              rd     == drop % 10
              lowval == (n[qd + 1] % 2^rd) * Base^qd + DigitsValue(SubSeq(n, 1, qd))
              half   == 2^(drop - 1)
              lsb    == (n[qd + 1] \div 2^rd) % 2
              up     == lowval > half \/ (lowval = half /\ lsb = 1)
              kept   == [i \in 1..Len(n) |->
                           IF i <= qd THEN 0
                           ELSE IF i = qd + 1 THEN n[i] - (n[i] % 2^rd)
                           ELSE n[i]]
          IN  IF up THEN AddAt(kept, qd + 1, 2^rd) ELSE kept

\* x = float(n)
ToFloat(n) == [ip |-> RoundToDouble(n), fp |-> <<>>]

Lt1024_mut_le(x) ==
  \/ \A i \in 2..Len(x.ip) : x.ip[i] = 0
  \/ /\ Len(x.ip) >= 2 /\ x.ip[1] = 0 /\ x.ip[2] = 1
     /\ \A i \in 3..Len(x.ip) : x.ip[i] = 0
     /\ \A i \in 1..Len(x.fp) : x.fp[i] = 0
\* x < 1024.0
Lt1024(x) == \A i \in 2..Len(x.ip) : x.ip[i] = 0

\* x /= 1024.0
Div1024(x) ==
  IF x.ip = <<>> THEN [ip |-> <<>>, fp |-> <<0>> \o x.fp]
  ELSE [ip |-> Tail(x.ip), fp |-> <<Head(x.ip)>> \o x.fp]

\* 100 times a fraction (digits, most significant first): the integer part
\* whole and the fraction that remains
RECURSIVE Mul100(_)
Mul100(fp) ==
  IF fp = <<>> THEN [whole |-> 0, rest |-> <<>>]
  ELSE LET low == Mul100(Tail(fp))
           v   == Head(fp) * 100 + low.whole
       IN  [whole |-> v \div Base, rest |-> <<v % Base>> \o low.rest]

\* a fraction (digits, most significant first) compared with 1/2: -1, 0 or 1
CmpHalf(fp) ==
  IF fp = <<>> \/ Head(fp) < Base \div 2 THEN -1
  ELSE IF Head(fp) > Base \div 2 \/ \E i \in 2..Len(fp) : fp[i] # 0 THEN 1
  ELSE 0

\* f"{x:.2f} {u}": x rounded to hundredths, ties to the even hundredth
Fmt2f(x, u) ==
  LET m     == Mul100(x.fp)
      c     == CmpHalf(m.rest)
      up    == c = 1 \/ (c = 0 /\ m.whole % 2 = 1)
      cents == m.whole + (IF up THEN 1 ELSE 0)
      int   == DigitsValue(x.ip)
  IN  [unit |-> u, decimals |-> 2,
       whole |-> IF cents = 100 THEN int + 1 ELSE int,
       cents |-> IF cents = 100 THEN 0 ELSE cents]

\* f"{int(x)} B"
FmtInt(x) == [unit |-> "B", decimals |-> 0, whole |-> DigitsValue(x.ip), cents |-> 0]

\* the for loop of fmt_bytes, at units[i] with the current x
RECURSIVE fmt_loop(_, _)
fmt_loop(x, i) ==
  IF Lt1024(x) \/ units[i] = units[Len(units)]
  THEN IF units[i] = "B" THEN FmtInt(x) ELSE Fmt2f(x, units[i])
  ELSE fmt_loop(Div1024(x), i + 1)

\* fmt_bytes(n)
fmt_bytes(n) == fmt_loop(ToFloat(n), 1)

\* a specification that calls fmt_bytes once on each input
FmtInit ==
  /\ args = [threshold |-> <<1, 2>>, interval |-> 1, cooldown |-> 0,
             no_ram |-> FALSE, no_disk |-> FALSE, user_key |-> "k", app_token |-> "k"]
  /\ pc = "fmt"
  /\ clock = 1
  /\ ram_state = TargetState("RAM")
  /\ disk_state = TargetState("Disk")
  /\ ev = NoEv
  /\ hist = [t \in Targets |-> NoHist]
  /\ tick = NoTick
  /\ fmt_n \in FmtInputs
  /\ fmt_out = NoFmt

\* the call fmt_bytes(fmt_n)
FmtCall ==
  /\ pc = "fmt"
  /\ fmt_out = NoFmt
  /\ fmt_out' = fmt_bytes(fmt_n)
  /\ UNCHANGED <<args, pc, clock, ram_state, disk_state, ev, hist, tick, fmt_n>>

FmtNext == FmtCall

FmtSpec == FmtInit /\ [][FmtNext]_vars

\* ---------------------------------------------------------------- helpers
\* the TargetState object of a target
StateOf(t) == IF t = "RAM" THEN ram_state ELSE disk_state
\* the control position at which a target is checked
PcOf(t) == IF t = "RAM" THEN "ram" ELSE "disk"
\* this step evaluates a sample of target t
EvalStep(t) == pc = PcOf(t) /\ ev'.kind = "eval" /\ ev'.target = t

TypeOK ==
  /\ pc \in {"start", "ram", "disk", "sleep", "exit", "crashed"}
  /\ clock \in 1..MaxTime
  /\ ram_state.last_above \in BOOLEAN /\ disk_state.last_above \in BOOLEAN
  /\ ram_state.last_alert_ts \in 0..MaxTime /\ disk_state.last_alert_ts \in 0..MaxTime

\* the threshold test of the sample of the last step, from its raw numbers
EvAbove == ev.frac[1] * args.threshold[2] >= args.threshold[1] * ev.frac[2]
\* the threshold test of the sample evaluated by this step
EvAboveNext == ev'.frac[1] * args.threshold[2] >= args.threshold[1] * ev'.frac[2]

\* ----------------------------------------------------------------- claims

\* C1: an evaluation calls send_pushover_alert if and only if
\* crossedUp or (above and cooldown > 0 and now - lastAlertTimestamp >= cooldown),
\* with above = (fraction >= threshold) and crossedUp = above and not the
\* lastAbove held before the evaluation.
C1_AlertDecision ==
  ev.kind = "eval" =>
    (ev.requested <=>
       \/ ((~ev.pre.last_above) /\ EvAbove)
       \/ (EvAbove /\ args.cooldown > 0 /\ ev.now - ev.pre.last_alert_ts >= args.cooldown))

\* C1 witness: a sample exactly at the threshold, evaluated while lastAbove
\* was true and the cooldown had elapsed, requested a notification
C1_Witness ==
  /\ ev.kind = "eval" /\ ev.requested /\ ev.pre.last_above
  /\ ev.frac[1] * args.threshold[2] = args.threshold[1] * ev.frac[2]
  /\ ev.now - ev.pre.last_alert_ts = args.cooldown

\* C2: after every evaluation, delivered or not, the target's lastAbove
\* equals (fraction of the sample >= threshold).
C2_LastAboveReflectsSample ==
  ev.kind = "eval" => (StateOf(ev.target).last_above <=> EvAbove)

\* C3: a step whose notification delivery failed leaves main() inside its
\* loop (at the next statement), not terminated.
C3_DeliveryFailureKeepsLoop ==
  (ev.kind = "eval" /\ ev.requested /\ ~ev.delivered) => pc \in {"ram", "disk", "sleep"}

\* C4: whenever an evaluation decides to alert at time now, lastAlertTimestamp
\* of the target is now afterwards, also when the delivery failed.
C4_TimestampSetOnAlert ==
  (ev.kind = "eval" /\ ev.requested) => StateOf(ev.target).last_alert_ts = ev.now

\* C5: with RAM and disk enabled, after a failed notification for RAM the
\* control is at the disk check of the same tick.
C5_RamFailureDiskStillChecked ==
  (/\ ~args.no_ram /\ ~args.no_disk
   /\ ev.kind = "eval" /\ ev.target = "RAM" /\ ev.requested /\ ~ev.delivered)
  => pc = "disk"

\* C6: when sampling a target fails, main() stays in its loop at the statement
\* after that target's check, the target's state is as before, and no
\* notification was requested.
C6_SampleFailureIsolated ==
  ev.kind = "sample_error" =>
    /\ pc = (IF ev.target = "RAM" THEN "disk" ELSE "sleep")
    /\ StateOf(ev.target) = ev.pre
    /\ ~ev.requested

\* C7: with cooldown = 0, once a target was alerted and only at/above samples
\* were evaluated since, an evaluation of that target does not alert.
C7_NoRepeatWithoutCooldown ==
  [][\A t \in Targets :
       (/\ EvalStep(t) /\ args.cooldown = 0
        /\ hist[t].alerted /\ ~hist[t].below_since)
       => ~ev'.requested]_vars

\* C7 witness: cooldown 0, an at/above sample evaluated after an alert with
\* no below sample in between, later than the alert, and it did not alert
C7_Witness ==
  /\ args.cooldown = 0 /\ ev.kind = "eval" /\ EvAbove /\ ~ev.requested
  /\ hist[ev.target].alerted /\ ~hist[ev.target].below_since
  /\ ev.now >= hist[ev.target].alert_time + 2

\* C8: after an alert, a below-threshold sample does not alert and leaves
\* lastAbove false, and the at/above sample that follows a below-threshold
\* sample alerts, whatever the cooldown and the time since the last alert.
C8_RearmOnRecovery ==
  [][\A t \in Targets :
       (EvalStep(t) /\ hist[t].alerted) =>
         /\ (~EvAboveNext => (~ev'.requested /\ ~StateOf(t)'.last_above))
         /\ ((hist[t].last_sample = "below" /\ EvAboveNext) => ev'.requested)]_vars

\* C8 witness: an alert, then a below sample, then an at/above sample that
\* alerted less than cooldown seconds after the previous alert
C8_Witness ==
  /\ ev.kind = "eval" /\ ev.requested /\ EvAbove
  /\ ~ev.pre.last_above /\ ev.pre.last_alert_ts > 0
  /\ args.cooldown > 0 /\ ev.now - ev.pre.last_alert_ts < args.cooldown

\* C9: with cooldown > 0, after a delivered alert at time T and only at/above
\* samples since, an at/above sample evaluated at t alerts exactly when
\* t - T >= cooldown, and when it does not alert lastAbove stays true.
C9_CooldownRepeat ==
  [][\A t \in Targets :
       (/\ EvalStep(t) /\ args.cooldown > 0 /\ EvAboveNext
        /\ hist[t].alerted /\ ~hist[t].below_since)
       => /\ (ev'.requested <=> ev'.now - hist[t].alert_time >= args.cooldown)
          /\ (~ev'.requested => StateOf(t)'.last_above)]_vars

\* C9 witness: a repeat alert exactly cooldown seconds after the previous
\* alert, for a target that had stayed at/above the threshold
C9_Witness ==
  /\ ev.kind = "eval" /\ ev.requested /\ ev.delivered /\ ev.pre.last_above
  /\ args.cooldown > 0 /\ ev.pre.last_alert_ts > 0
  /\ ev.now - ev.pre.last_alert_ts = args.cooldown

\* C10: an alert that follows an earlier alert of the same target comes after
\* a below-threshold sample of that target, or cooldown > 0 and it is at
\* least cooldown seconds later than the earlier alert.
C10_ConsecutiveAlerts ==
  [][\A t \in Targets :
       (EvalStep(t) /\ ev'.requested /\ hist[t].alerted) =>
         \/ hist[t].below_since
         \/ (args.cooldown > 0 /\ ev'.now - hist[t].alert_time >= args.cooldown)]_vars

\* C10 witness: a second alert of a target with no below sample since the
\* first one
C10_Witness ==
  /\ ev.kind = "eval" /\ ev.requested /\ ev.pre.last_above /\ ev.pre.last_alert_ts > 0
  /\ hist[ev.target].alerted /\ ev.now > ev.pre.last_alert_ts

\* a target is enabled unless its --no-ram / --no-disk flag is set
Enabled(t) == IF t = "RAM" THEN ~args.no_ram ELSE ~args.no_disk

\* C11: from a fresh state (lastAbove false, lastAlertTimestamp 0) an at/above
\* sample evaluated at T alerts and leaves lastAlertTimestamp = T and
\* lastAbove = true, for every cooldown; a below sample does not alert.
C11_FirstAboveSampleAlerts ==
  (ev.kind = "eval" /\ ~ev.pre.last_above /\ ev.pre.last_alert_ts = 0) =>
    IF EvAbove
    THEN /\ ev.requested
         /\ StateOf(ev.target).last_alert_ts = ev.now
         /\ StateOf(ev.target).last_above
    ELSE ~ev.requested

\* C12: with an invalid configuration (threshold <= 0 or > 1, both targets
\* disabled, a missing user key or app token) main() is at its start or has
\* exited, and nothing was sampled, evaluated or notified.
C12_InvalidConfigRejected ==
  (\/ args.threshold[1] <= 0
   \/ args.threshold[1] > args.threshold[2]
   \/ (args.no_ram /\ args.no_disk)
   \/ args.user_key = ""
   \/ args.app_token = "")
  => /\ pc \in {"start", "exit"}
     /\ ev.kind \in {"none", "rejected"}
     /\ tick = NoTick
     /\ hist = [t \in Targets |-> NoHist]

\* C12 witness: threshold 0 with everything else valid has exited
C12_Witness ==
  /\ pc = "exit" /\ args.threshold = <<0, 1>>
  /\ ~args.no_ram /\ ~args.no_disk /\ args.user_key # "" /\ args.app_token # ""

\* C13: in every loop iteration each enabled target is sampled once and
\* evaluated once, RAM before disk, the notifier is called at most once per
\* target and exactly when the evaluation decides to alert, a disabled target
\* is never sampled, evaluated or notified, and the sleep (or the end of the
\* iteration) is reached only with all enabled targets evaluated.
C13_TickShape ==
  /\ \A t \in Targets :
       /\ tick[t].sampled <= 1 /\ tick[t].evaluated <= 1 /\ tick[t].notified <= 1
       /\ ~Enabled(t) => tick[t] = NoTick[t]
       /\ (pc \in {"sleep", "crashed"} /\ Enabled(t)) =>
            (tick[t].sampled = 1 /\ tick[t].evaluated = 1)
  /\ (tick["Disk"].sampled = 1 /\ Enabled("RAM")) => tick["RAM"].evaluated = 1
  /\ ev.kind = "eval" =>
       (tick[ev.target].notified = 1 <=>
          \/ ((~ev.pre.last_above) /\ EvAbove)
          \/ (EvAbove /\ args.cooldown > 0
              /\ ev.now - ev.pre.last_alert_ts >= args.cooldown))

\* C15: lastAlertTimestamp of a target changes only in an evaluation of that
\* target that alerts, and then becomes that evaluation's now; an evaluation
\* that does not alert leaves it unchanged; the name never changes.
C15_TimestampFrame ==
  [][\A t \in Targets :
       /\ StateOf(t)'.name = StateOf(t).name
       /\ (StateOf(t)'.last_alert_ts # StateOf(t).last_alert_ts) =>
            (EvalStep(t) /\ ev'.requested /\ StateOf(t)'.last_alert_ts = ev'.now)
       /\ (EvalStep(t) /\ ~ev'.requested) =>
            StateOf(t)'.last_alert_ts = StateOf(t).last_alert_ts]_vars

\* C15 witness: an at/above sample evaluated after an earlier alert that did
\* not alert and left the earlier timestamp in place
C15_Witness ==
  /\ ev.kind = "eval" /\ ~ev.requested /\ EvAbove
  /\ ev.pre.last_alert_ts > 0 /\ ev.now > ev.pre.last_alert_ts
  /\ StateOf(ev.target).last_alert_ts = ev.pre.last_alert_ts

\* C16: an evaluation for RAM leaves the disk state unchanged and vice versa,
\* and the alert decision for a target is made from that target's own state,
\* sample and time.
C16_TargetsIndependent ==
  [][\A t \in Targets :
       EvalStep(t) =>
         /\ \A o \in Targets \ {t} : StateOf(o)' = StateOf(o)
         /\ (ev'.requested <=>
               \/ ((~StateOf(t).last_above) /\ EvAboveNext)
               \/ (EvAboveNext /\ args.cooldown > 0
                   /\ clock - StateOf(t).last_alert_ts >= args.cooldown))]_vars

\* C16 witness: a delivered RAM alert while the disk state holds another
\* timestamp and the opposite lastAbove
C16_Witness ==
  /\ ev.kind = "eval" /\ ev.target = "RAM" /\ ev.delivered
  /\ disk_state.last_alert_ts > 0
  /\ disk_state.last_alert_ts # ram_state.last_alert_ts
  /\ ~disk_state.last_above

\* C17: a reading with total = 0 gives fraction 0, is below the threshold,
\* does not alert and leaves lastAbove false; a reading with used <= total and
\* total > 0 gives the fraction used / total, which lies in [0, 1].
C17_ZeroTotal ==
  ev.kind = "eval" =>
    /\ ev.frac[2] > 0
    /\ ev.total = 0 =>
         /\ ev.frac[1] = 0
         /\ ~EvAbove
         /\ ~ev.requested
         /\ ~StateOf(ev.target).last_above
    /\ (ev.total > 0 /\ ev.used <= ev.total) =>
         /\ ev.frac[1] * ev.total = ev.used * ev.frac[2]
         /\ 0 <= ev.frac[1] /\ ev.frac[1] <= ev.frac[2]

\* C17 witness: a reading with total = 0 evaluated while lastAbove was true
C17_Witness ==
  /\ ev.kind = "eval" /\ ev.total = 0 /\ ev.pre.last_above
  /\ ~StateOf(ev.target).last_above

\* C14: once main() is in its loop it stays in it, and in normal operation a
\* started loop reaches its sleep again and again and begins a new iteration
\* again and again, without end.
C14_LoopNeverEnds ==
  /\ [][(pc \in {"ram", "disk", "sleep"}) => (pc' \in {"ram", "disk", "sleep"})]_vars
  /\ []<>(pc = "exit" \/ pc = "sleep")
  /\ []<>(pc = "exit" \/ pc = "ram")

\* C14 witness: an iteration begins after an iteration in which both targets
\* were alerted and the origin of time has moved
C14_Witness ==
  /\ pc = "ram" /\ ev.kind = "sleep"
  /\ hist["RAM"].alerted /\ hist["Disk"].alerted
  /\ ram_state.last_above /\ ram_state.last_alert_ts = 0

\* a sample of target t below the threshold, or an alert for t, was the last step
BelowOrAlert(t) == ev.kind = "eval" /\ ev.target = t /\ (~EvAbove \/ ev.requested)

\* C19: with cooldown > 0, an advancing clock and deliveries that succeed, an
\* enabled target whose samples stay at/above the threshold from some point on
\* is alerted again and again, and a repeat alert happens exactly at the first
\* evaluation that is at least cooldown seconds after the previous alert.
C19_RepeatAlertsLive ==
  /\ []<>(pc = "exit" \/ args.cooldown = 0 \/ args.no_ram \/ BelowOrAlert("RAM"))
  /\ []<>(pc = "exit" \/ args.cooldown = 0 \/ args.no_disk \/ BelowOrAlert("Disk"))
  /\ [][\A t \in Targets :
          (/\ EvalStep(t) /\ args.cooldown > 0 /\ EvAboveNext
           /\ StateOf(t).last_above /\ hist[t].alerted /\ ~hist[t].below_since)
          => (ev'.delivered <=> clock - hist[t].alert_time >= args.cooldown)]_vars

\* C19 witness: a delivered repeat alert at the first tick past the cooldown,
\* more than cooldown seconds after the previous alert
C19_Witness ==
  /\ ev.kind = "eval" /\ ev.delivered /\ ev.pre.last_above
  /\ args.cooldown > 0 /\ ev.pre.last_alert_ts > 0
  /\ ev.now - ev.pre.last_alert_ts > args.cooldown
  /\ ev.now - ev.pre.last_alert_ts < args.cooldown + args.interval

\* the byte count n is below 1024^(k+1): its digits above position k are zero
BelowPower(n, k) == \A i \in (k + 2)..Len(n) : n[i] = 0

\* the unit index of the claim: the smallest k in 0..5 with n < 1024^(k+1),
\* and 5 when there is none
ClaimUnit(n) ==
  IF \E k \in 0..5 : BelowPower(n, k)
  THEN CHOOSE k \in 0..5 : BelowPower(n, k) /\ \A j \in 0..(k - 1) : ~BelowPower(n, j)
  ELSE 5

\* a digit sequence of FmtMaxDigits digits from its low digits
Padded(low) == [i \in 1..FmtMaxDigits |-> IF i <= Len(low) THEN low[i] ELSE 0]

\* C18: fmt_bytes picks the unit with the smallest index k in 0..5 such that
\* n < 1024^(k+1), PiB when there is none; for k = 0 it renders n as an integer
\* with unit B; for k >= 1 it renders n / 1024^k with two decimals, that is
\* less than one hundredth away from n / 1024^k; 1023 -> "1023 B", 1024 -> "1.00 KiB",
\* 1536 -> "1.50 KiB", 1024^5 -> "1.00 PiB".
C18_FmtBytes ==
  fmt_out.unit # "none" =>
    LET k    == ClaimUnit(fmt_n)
        int  == DigitsValue(SubSeq(fmt_n, k + 1, Len(fmt_n)))
        m    == Mul100([i \in 1..k |-> fmt_n[k + 1 - i]])
        frac == \E i \in 1..Len(m.rest) : m.rest[i] # 0
        diff == 100 * (fmt_out.whole - int) + fmt_out.cents - m.whole
    IN  /\ fmt_out.unit = <<"B", "KiB", "MiB", "GiB", "TiB", "PiB">>[k + 1]
        /\ k = 0 => (fmt_out.decimals = 0 /\ fmt_out.whole = fmt_n[1])
        /\ k >= 1 =>
             /\ fmt_out.decimals = 2
             /\ fmt_out.cents \in 0..99
             /\ fmt_out.whole - int \in {0, 1}
             /\ \/ diff = 0
                \/ (diff = 1 /\ frac)
        /\ fmt_n = Padded(<<1023>>) =>
             fmt_out = [unit |-> "B", decimals |-> 0, whole |-> 1023, cents |-> 0]
        /\ fmt_n = Padded(<<0, 1>>) =>
             fmt_out = [unit |-> "KiB", decimals |-> 2, whole |-> 1, cents |-> 0]
        /\ fmt_n = Padded(<<512, 1>>) =>
             fmt_out = [unit |-> "KiB", decimals |-> 2, whole |-> 1, cents |-> 50]
        /\ fmt_n = Padded(<<0, 0, 0, 0, 0, 1>>) =>
             fmt_out = [unit |-> "PiB", decimals |-> 2, whole |-> 1, cents |-> 0]

\* C18 witness: a byte count of at least 1024^6 rendered in PiB with a whole
\* part of 1024 or more
C18_Witness ==
  /\ fmt_out.unit # "none" /\ fmt_n[7] # 0
  /\ fmt_out.unit = "PiB" /\ fmt_out.whole >= 1024

====
